---- MODULE Spec2Model ----
(***************************************************************************)
(* The retrieval-augmented answering pipeline of the meeting agent:        *)
(* VectorService (embedding, chunking, the in-memory vector store and its  *)
(* similarity search) and RAGService (retrieval policy, context assembly,  *)
(* answer generation, confidence).                                         *)
(*                                                                         *)
(* Texts are sequences of one-character strings.  Floating point numbers   *)
(* are fixed-point integers in units of 1/SCALE (a similarity of 0.75 is   *)
(* 750).  An embedding array is the record [dim, val]: its length and its  *)
(* non-zero entries (a function from index to value).                      *)
(***************************************************************************)
EXTENDS Integers, Sequences, FiniteSets, TLC

\* ------------------------------------------------------------------ bounds

\* Fixed-point unit: 1.0 is SCALE.
SCALE == 10 * 100
\* The store never holds more than MaxVectors records in the model.
MaxVectors == 3
\* Concurrent addMeetingSegments calls and concurrent query calls.
MaxAdds == 1
MaxQueries == 1
\* addMeetingSegments calls started in one run of the model.
MaxIndexCalls == 2
MaxIndexers == 2

\* ------------------------------------------------------ program constants

FALLBACK_DIM == 384
HASH_SPREAD == 5
MIN_CHUNK_LEN == 10
DEFAULT_CHUNK_LEN == 500
CLEAN_LIMIT == 8000
SEARCH_FLOOR == 700
BOOST_NUM == 12
BOOST_DEN == 10
SOURCE_TARGET == 3
PENALTY == 800
DEFAULT_MAX_CONTEXT == 4000
DEFAULT_RETRIEVAL_LIMIT == 6
DEFAULT_THRESHOLD == 750
FALLBACK_LINES == 3

\* ------------------------------------------------------------- characters

\* A character is a one-element string; "LF" is the line feed and "Uxxxx" the
\* character of that code point.  CodeOf is charCodeAt.
CodeOf ==
  "a" :> 97 @@ "b" :> 98 @@ "c" :> 99 @@ "d" :> 100 @@ "k" :> 107 @@ "m" :> 109
    @@ "o" :> 111 @@ "s" :> 115 @@ "A" :> 65
    @@ "0" :> 48 @@ "1" :> 49 @@ "2" :> 50 @@ "3" :> 51 @@ "4" :> 52 @@ "5" :> 53
    @@ "6" :> 54 @@ "7" :> 55 @@ "8" :> 56 @@ "9" :> 57
    @@ "_" :> 95 @@ " " :> 32 @@ "LF" :> 10 @@ "." :> 46 @@ "!" :> 33 @@ "?" :> 63
    @@ ":" :> 58 @@ "[" :> 91 @@ "]" :> 93
    @@ "U3002" :> 12290 @@ "UFF01" :> 65281 @@ "UFF1F" :> 65311
    @@ "U9ED1" :> 40657
    @@ "U53EF" :> 21487 @@ "U80FD" :> 33021 @@ "U5927" :> 22823 @@ "U6982" :> 27010
    @@ "U4F3C" :> 20284 @@ "U4E4E" :> 20046 @@ "U4E0D" :> 19981 @@ "U786E" :> 30830
    @@ "U5B9A" :> 23450 @@ "U6CA1" :> 27809 @@ "U6709" :> 26377 @@ "U627E" :> 25214
    @@ "U5230" :> 21040 @@ "U4FE1" :> 20449 @@ "U606F" :> 24687 @@ "U8DB3" :> 36275
    @@ "U5EFA" :> 24314 @@ "U8BAE" :> 35758 @@ "U6216" :> 25110 @@ "U8BB8" :> 35768

CharCode(c) == CodeOf[c]

\* \s
IsSpace(c) == CharCode(c) \in {32, 10}
\* [\w一-龥]
IsWord(c) ==
  LET n == CharCode(c)
  IN \/ n \in 97..122 \/ n \in 65..90 \/ n \in 48..57 \/ n = 95
     \/ n \in 19968..40869
\* [。！？.!?]
IsTerminal(c) == CharCode(c) \in {12290, 65281, 65311, 46, 33, 63}

\* toLowerCase on the letters of the model
ToLower(c) == IF c = "A" THEN "a" ELSE c

DigitChars == <<"0", "1", "2", "3", "4", "5", "6", "7", "8", "9">>

\* Number.prototype.toString of a non-negative integer
RECURSIVE ToDigits(_)
ToDigits(n) ==
  IF n < 10 THEN <<DigitChars[n + 1]>>
  ELSE ToDigits(n \div 10) \o <<DigitChars[(n % 10) + 1]>>

\* ---------------------------------------------------------- sequence help

\* n copies of the sequence w, one after the other
Rep(w, n) == [i \in 1..(n * Len(w)) |-> w[((i - 1) % Len(w)) + 1]]

RECURSIVE TrimLeft(_)
TrimLeft(s) == IF s # <<>> /\ IsSpace(Head(s)) THEN TrimLeft(Tail(s)) ELSE s

RECURSIVE TrimRight(_)
TrimRight(s) ==
  IF s # <<>> /\ IsSpace(s[Len(s)]) THEN TrimRight(SubSeq(s, 1, Len(s) - 1)) ELSE s

\* String.prototype.trim
Trim(s) == TrimRight(TrimLeft(s))

\* String.prototype.substring(0, n)
Prefix(s, n) == IF Len(s) <= n THEN s ELSE SubSeq(s, 1, n)

RECURSIVE SumSeq(_)
SumSeq(s) == IF s = <<>> THEN 0 ELSE Head(s) + SumSeq(Tail(s))

Min(a, b) == IF a <= b THEN a ELSE b

\* floor(sqrt(n)) by bisection on [lo, hi)
RECURSIVE SqrtIn(_, _, _)
SqrtIn(n, lo, hi) ==
  IF hi - lo <= 1 THEN lo
  ELSE LET mid == (lo + hi) \div 2
       IN IF mid * mid <= n THEN SqrtIn(n, mid, hi) ELSE SqrtIn(n, lo, mid)

ISqrt(n) == SqrtIn(n, 0, 46341)

\* ------------------------------------------------------------- cleanText

\* replace(/\s+/g, ' '): the first character of a whitespace run becomes a
\* space, the rest of the run goes.
CollapseSpaces(s) ==
  LET marked == [i \in 1..Len(s) |->
                   IF ~IsSpace(s[i]) THEN s[i]
                   ELSE IF i > 1 /\ IsSpace(s[i - 1]) THEN "" ELSE " "]
  IN SelectSeq(marked, LAMBDA c : c # "")

cleanText(text) ==
  Prefix(Trim(SelectSeq(CollapseSpaces(text), LAMBDA c : IsWord(c) \/ IsSpace(c))),
         CLEAN_LIMIT)

\* ------------------------------------------------------------- chunkText

\* The two separator classes the code splits on: kind "terminal" is
\* /[。！？.!?]/, kind "nonword" is the complement of /[\w一-龥]/.
IsSep(kind, c) == IF kind = "terminal" THEN IsTerminal(c) ELSE ~IsWord(c)

\* The k-th smallest element of a set of integers
Nth(set, k) == CHOOSE p \in set : Cardinality({x \in set : x < p}) = k - 1

\* String.prototype.split on a one-character separator class: the pieces
\* between separators, empty pieces included.
\* The pieces of s between the separators that start at the positions seps
\* and are width characters long.
SplitAt(s, seps, width) ==
  [k \in 1..(Cardinality(seps) + 1) |->
     SubSeq(s,
            IF k = 1 THEN 1 ELSE Nth(seps, k - 1) + width,
            IF k = Cardinality(seps) + 1 THEN Len(s) ELSE Nth(seps, k) - 1)]

Split(s, kind) == SplitAt(s, {i \in 1..Len(s) : IsSep(kind, s[i])}, 1)

\* if (currentChunk.trim()) chunks.push(currentChunk.trim())
PushChunk(chunks, currentChunk) ==
  IF Trim(currentChunk) # <<>> THEN Append(chunks, Trim(currentChunk)) ELSE chunks

\* The loop of chunkText over the sentences, and the push after it.
RECURSIVE ChunkLoop(_, _, _, _)
ChunkLoop(sentences, chunks, currentChunk, maxLength) ==
  IF sentences = <<>> THEN PushChunk(chunks, currentChunk)
  ELSE IF Len(currentChunk \o Head(sentences)) > maxLength /\ currentChunk # <<>>
       THEN ChunkLoop(Tail(sentences), Append(chunks, Trim(currentChunk)),
                      Head(sentences), maxLength)
       ELSE ChunkLoop(Tail(sentences), chunks,
                      currentChunk \o (IF currentChunk # <<>> THEN <<"U3002">> ELSE <<>>)
                                   \o Head(sentences),
                      maxLength)

\* chunks.length > 0 ? chunks : [text]
ChunksOr(chunks, text) == IF Len(chunks) > 0 THEN chunks ELSE <<text>>

chunkText(text, maxLength) ==
  ChunksOr(ChunkLoop(SelectSeq(Split(text, "terminal"), LAMBDA s : Trim(s) # <<>>),
                     <<>>, <<>>, maxLength),
           text)

\* ------------------------------------------------------ fallback embedding

\* A 32-bit integer is kept as two 16-bit limbs [hi, lo] (TLC's own integers
\* are 32 bits wide, so 31 * hash is computed limb by limb).
LIMB == 256 * 256

\* hash = ((hash << 5) - hash) + char; hash = hash & hash
\* i.e. (31 * hash + char) mod 2^32, on the two's-complement limbs.
HashStep(h, char) ==
  LET lo == 31 * h.lo + char
      hi == 31 * h.hi + (lo \div LIMB)
  IN [hi |-> hi % LIMB, lo |-> lo % LIMB]

RECURSIVE HashLoop(_, _)
HashLoop(str, hash) ==
  IF str = <<>> THEN hash
  ELSE HashLoop(Tail(str), HashStep(hash, CharCode(Head(str))))

\* Math.abs of the signed 32-bit value held in the limbs (2^31 for -2^31).
AbsLimbs(h) ==
  IF h.hi < LIMB \div 2 THEN h
  ELSE IF h.lo = 0 THEN [hi |-> LIMB - h.hi, lo |-> 0]
       ELSE [hi |-> LIMB - 1 - h.hi, lo |-> LIMB - h.lo]

simpleHash(str) == AbsLimbs(HashLoop(str, [hi |-> 0, lo |-> 0]))

\* (hash + i) % 384 on the limbs
HashSlot(hash, i) ==
  (((hash.hi % FALLBACK_DIM) * (LIMB % FALLBACK_DIM)) + hash.lo + i) % FALLBACK_DIM

\* text.toLowerCase().match(/[\w一-龥]+/g) || []
Words(text) ==
  SelectSeq(Split([i \in 1..Len(text) |-> ToLower(text[i])], "nonword"),
            LAMBDA w : w # <<>>)

\* The sum of a[k] * b[k] over the indices ks
RECURSIVE DotOver(_, _, _)
DotOver(ks, a, b) ==
  IF ks = {} THEN 0
  ELSE LET k == CHOOSE x \in ks : TRUE
       IN a[k] * b[k] + DotOver(ks \ {k}, a, b)

\* wordFreq.get(word): the occurrences of the word
WordFreq(words, w) == Cardinality({i \in 1..Len(words) : words[i] = w})

\* The indices one word adds to: (hash + i) % 384 for i < 5
WordSlots(w) == {HashSlot(simpleHash(w), i) : i \in 0..(HASH_SPREAD - 1)}

\* embedding[index] += freq * 0.1, summed at index k over the words ws
RECURSIVE Accumulate(_, _, _)
Accumulate(words, ws, k) ==
  IF ws = {} THEN 0
  ELSE LET w == CHOOSE x \in ws : TRUE
       IN (IF k \in WordSlots(w) THEN WordFreq(words, w) * (SCALE \div 10) ELSE 0)
            + Accumulate(words, ws \ {w}, k)

\* The elements of a sequence
Range(s) == {s[i] : i \in 1..Len(s)}

\* The embedding before normalisation, at its non-zero indices
RawEmbedding(words) ==
  [k \in UNION {WordSlots(w) : w \in Range(words)} |->
     Accumulate(words, Range(words), k)]

\* norm > 0 ? embedding.map(val => val / norm) : embedding
Normalize(embedding, norm) ==
  IF norm > 0 THEN [k \in DOMAIN embedding |-> (embedding[k] * SCALE) \div norm]
  ELSE embedding

\* Math.sqrt(embedding.reduce((sum, val) => sum + val * val, 0))
Norm(embedding) == ISqrt(DotOver(DOMAIN embedding, embedding, embedding))

NormalizedArray(embedding) ==
  [dim |-> FALLBACK_DIM, val |-> Normalize(embedding, Norm(embedding))]

getFallbackEmbedding(text) == NormalizedArray(RawEmbedding(Words(text)))

\* ------------------------------------------------------- cosineSimilarity

\* A response body without an embedding field: getEmbedding returns undefined.
Undefined == [dim |-> -1, val |-> <<>>]

\* denominator === 0 ? 0 : dotProduct / denominator
Quotient(dotProduct, denominator) ==
  IF denominator = 0 THEN 0 ELSE (dotProduct * SCALE) \div denominator

\* Both arguments are arrays (not Undefined); reading .length of undefined
\* throws, which the callers model.
cosineSimilarity(a, b) ==
  IF a.dim # b.dim THEN 0
  ELSE Quotient(DotOver(DOMAIN a.val \cap DOMAIN b.val, a.val, b.val),
                ISqrt(DotOver(DOMAIN a.val, a.val, a.val))
                  * ISqrt(DotOver(DOMAIN b.val, b.val, b.val)))

\* ------------------------------------------------------------------ inputs

A4 == <<"a", "a", "a", "a">>
B4 == <<"b", "b", "b", "b">>
C4 == <<"c", "c", "c", "c">>
SP == <<" ">>

\* Meeting ids as the callers build them: a prefix, "_", a number.
M1 == <<"m", "_", "1">>
M2 == <<"m", "_", "2">>
MeetingIds == {M1, M2}
\* currentMeetingId?: NoMeeting is the absent argument.
NoMeeting == <<>>

\* "aaaa  bbbb": ten characters, two words
TextExact == A4 \o SP \o SP \o B4
\* "aaaa bbbb cccc"
TextMixed == A4 \o SP \o B4 \o SP \o C4
\* "aaaa bbbb aaaa"
TextNear == A4 \o SP \o B4 \o SP \o A4
\* "aaaa bbbb.": ten characters, one sentence of nine
TextStop == A4 \o SP \o B4 \o <<".">>
\* Two sentences of 259 and 254 characters: more than one chunk of 500.
Sentence == Rep(A4 \o SP \o B4 \o SP, 25) \o A4 \o SP \o B4
TextLong == Sentence \o <<".">> \o Rep(TextNear \o SP, 16) \o TextNear

Seg(idx, text) == [idx |-> idx, t |-> 65 * idx, speaker |-> <<"A">>, text |-> text]

Batches ==
  { [meetingId |-> M1, segments |-> <<Seg(0, TextMixed), Seg(1, TextExact)>>],
    [meetingId |-> M2, segments |-> <<Seg(0, TextNear)>>],
    [meetingId |-> M1, segments |-> <<Seg(0, TextStop)>>],
    [meetingId |-> M2, segments |-> <<Seg(2, TextLong)>>] }

Questions == {A4 \o SP \o B4, A4}

\* What the embeddings endpoint can answer with a 2xx status: an embedding of
\* the configured model (text-embedding-ada-002: 1536 numbers), or a body
\* whose data[0] has no embedding field.
REMOTE_DIM == 1536
RemoteA == [dim |-> REMOTE_DIM, val |-> (0 :> 1000)]
\* ok = FALSE: a transport error, a non-2xx status or an unreadable body.
EmbedOutcomes ==
  {[ok |-> FALSE, embedding |-> Undefined]}
    \cup {[ok |-> TRUE, embedding |-> e] : e \in {RemoteA, Undefined}}

\* What the chat endpoint can answer: a failure, or a message content.
Hedged == <<"U53EF", "U80FD">>
LLMOutcomes ==
  {[ok |-> FALSE, content |-> <<>>]}
    \cup {[ok |-> TRUE, content |-> c] : c \in {<<" ", "o", "k">>, Hedged}}

Keys == {<<"s", "k">>}
NoKey == <<>>

ConfigUpdates == { [retrievalLimit |-> 2], [similarityThreshold |-> 990] }

\* The pure functions of the indexing and query paths, tabulated once over
\* the texts of the model.
BatchTexts == UNION {{b.segments[i].text : i \in 1..Len(b.segments)} : b \in Batches}
ChunkTable == [t \in BatchTexts |-> chunkText(t, DEFAULT_CHUNK_LEN)]
EmbedTexts ==
  Questions \cup UNION {{ChunkTable[t][i] : i \in 1..Len(ChunkTable[t])} : t \in BatchTexts}
FallbackTable == [t \in EmbedTexts |-> getFallbackEmbedding(cleanText(t))]

\* ------------------------------------------------------ retrieval pipeline

\* Array.prototype.sort((a, b) => b.similarity - a.similarity): stable,
\* descending.
RECURSIVE InsertDesc(_, _)
InsertDesc(sorted, r) ==
  IF sorted = <<>> THEN <<r>>
  ELSE IF Head(sorted).similarity >= r.similarity
       THEN <<Head(sorted)>> \o InsertDesc(Tail(sorted), r)
       ELSE <<r>> \o sorted

\* SortDesc without the sort
KeepOrder(rs) == rs

RECURSIVE SortDesc(_)
SortDesc(rs) ==
  IF rs = <<>> THEN <<>>
  ELSE InsertDesc(SortDesc(SubSeq(rs, 1, Len(rs) - 1)), rs[Len(rs)])

\* A catch block that throws again
SearchRethrows == [rejects |-> TRUE, results |-> <<>>]

\* The catch block of semanticSearch: log, return [].  A search outcome is
\* [rejects, results]; rejects = TRUE is an exception leaving semanticSearch.
SearchCatch == [rejects |-> FALSE, results |-> <<>>]

\* semanticSearch without the similarity floor
ScanWithoutFloor(store, queryEmbedding, limit) ==
  IF Len(store) > 0
     /\ (queryEmbedding = Undefined
           \/ \E i \in 1..Len(store) : store[i].embedding = Undefined)
  THEN SearchCatch
  ELSE [rejects |-> FALSE,
        results |->
          Prefix(SortDesc([i \in 1..Len(store) |->
                             [vector |-> store[i],
                              similarity |->
                                cosineSimilarity(queryEmbedding, store[i].embedding)]]),
                 limit)]

\* The body of semanticSearch after the query embedding has arrived.  A
\* similarity computed on an undefined embedding throws inside the try.
SearchScan(store, queryEmbedding, limit) ==
  IF Len(store) > 0
     /\ (queryEmbedding = Undefined
           \/ \E i \in 1..Len(store) : store[i].embedding = Undefined)
  THEN SearchCatch
  ELSE [rejects |-> FALSE,
        results |->
          SelectSeq(Prefix(SortDesc([i \in 1..Len(store) |->
                                       [vector |-> store[i],
                                        similarity |->
                                          cosineSimilarity(queryEmbedding,
                                                           store[i].embedding)]]),
                           limit),
                    LAMBDA r : r.similarity > SEARCH_FLOOR)]

ThresholdFilter(results, threshold) ==
  SelectSeq(results, LAMBDA r : r.similarity >= threshold)

\* A boost with the factor inverted: similarity / 1.2
DampCurrentMeeting(results, currentMeetingId) ==
  SortDesc([i \in 1..Len(results) |->
              [vector |-> results[i].vector,
               similarity |-> IF results[i].vector.metadata.meetingId = currentMeetingId
                              THEN (results[i].similarity * BOOST_DEN) \div BOOST_NUM
                              ELSE results[i].similarity]])

boostCurrentMeeting(results, currentMeetingId) ==
  SortDesc([i \in 1..Len(results) |->
              [vector |-> results[i].vector,
               similarity |-> IF results[i].vector.metadata.meetingId = currentMeetingId
                              THEN (results[i].similarity * BOOST_NUM) \div BOOST_DEN
                              ELSE results[i].similarity]])

\* deduplicateResults keeping the last result of a segmentId
RECURSIVE DedupKeepLast(_, _)
DedupKeepLast(results, entries) ==
  IF results = <<>> THEN entries
  ELSE LET r == Head(results)
           hit == {i \in 1..Len(entries) :
                     entries[i].vector.metadata.segmentId = r.vector.metadata.segmentId}
       IN IF hit = {} THEN DedupKeepLast(Tail(results), Append(entries, r))
          ELSE DedupKeepLast(Tail(results),
                             [entries EXCEPT ![CHOOSE x \in hit : TRUE] = r])

\* The Map of deduplicateResults as a sequence in insertion order: a later
\* result replaces the entry of its segmentId in place when strictly better.
RECURSIVE DedupLoop(_, _)
DedupLoop(results, entries) ==
  IF results = <<>> THEN entries
  ELSE LET r == Head(results)
           hit == {i \in 1..Len(entries) :
                     entries[i].vector.metadata.segmentId = r.vector.metadata.segmentId}
       IN IF hit = {} THEN DedupLoop(Tail(results), Append(entries, r))
          ELSE LET i == CHOOSE x \in hit : TRUE
               IN IF r.similarity > entries[i].similarity
                  THEN DedupLoop(Tail(results), [entries EXCEPT ![i] = r])
                  ELSE DedupLoop(Tail(results), entries)

deduplicateResults(results) == SortDesc(DedupLoop(results, <<>>))

\* retrieveContext from the return of semanticSearch on.
\* if (currentMeetingId) filteredResults = this.boostCurrentMeeting(...)
BoostIfCurrent(filtered, currentMeetingId) ==
  IF currentMeetingId # NoMeeting THEN boostCurrentMeeting(filtered, currentMeetingId)
  ELSE filtered

\* retrieveContext with the threshold applied after the boost
BoostThenFilter(searched, currentMeetingId, threshold) ==
  deduplicateResults(ThresholdFilter(BoostIfCurrent(searched, currentMeetingId),
                                     threshold))

RetrieveAfterSearch(searched, currentMeetingId, threshold) ==
  deduplicateResults(BoostIfCurrent(ThresholdFilter(searched, threshold),
                                    currentMeetingId))

\* -------------------------------------------------------- context, answer

\* `${meetingId}_${segment.idx}`
SegmentId(meetingId, idx) == meetingId \o <<"_">> \o ToDigits(idx)

\* formatTime: `${minutes}:${secs.toString().padStart(2, '0')}`
formatTime(seconds) ==
  LET minutes == seconds \div 60
      secs == seconds % 60
  IN ToDigits(minutes) \o <<":">>
       \o (IF secs < 10 THEN <<"0">> ELSE <<>>) \o ToDigits(secs)

\* `[${timestamp}] ${metadata.speaker}: ${metadata.text}`
ContextLine(metadata) ==
  <<"[">> \o formatTime(metadata.timestamp) \o <<"]", " ">>
    \o metadata.speaker \o <<":", " ">> \o metadata.text

RECURSIVE ContextLoop(_, _, _)
ContextLoop(results, context, maxContextLength) ==
  IF results = <<>> THEN [context |-> context, truncated |-> FALSE]
  ELSE LET segmentText == ContextLine(Head(results).vector.metadata)
       IN IF Len(context \o segmentText) > maxContextLength
          THEN [context |-> context, truncated |-> TRUE]
          ELSE ContextLoop(Tail(results),
                           context \o (IF context # <<>> THEN <<"LF", "LF">> ELSE <<>>)
                                   \o segmentText,
                           maxContextLength)

prepareContext(results, maxContextLength) == ContextLoop(results, <<>>, maxContextLength)

\* The number of results the loop of prepareContext puts into the context.
RECURSIVE IncludedLoop(_, _, _)
IncludedLoop(results, context, maxContextLength) ==
  IF results = <<>> THEN 0
  ELSE IF Len(context \o ContextLine(Head(results).vector.metadata)) > maxContextLength
       THEN 0
       ELSE 1 + IncludedLoop(Tail(results),
                             context \o (IF context # <<>> THEN <<"LF", "LF">> ELSE <<>>)
                                     \o ContextLine(Head(results).vector.metadata),
                             maxContextLength)

\* context.split('\n\n'): the separators are found left to right and do not
\* overlap, so in a run of line feeds every second one starts a separator.
IsLF(s, i) == i >= 1 /\ i <= Len(s) /\ s[i] = "LF"

\* The first position of the run of line feeds that position i is in
RunStart(s, i) == CHOOSE r \in 1..i : (\A j \in r..i : IsLF(s, j)) /\ ~IsLF(s, r - 1)

SplitBlank(s) ==
  SplitAt(s,
          {i \in 1..Len(s) :
             IsLF(s, i) /\ IsLF(s, i + 1) /\ (i - RunStart(s, i)) % 2 = 0},
          2)

\* An answer is [kind, items, more]: the template of its kind filled with the
\* numbered items and, when more > 0, the "N more records" note.
NotFoundAnswer == [kind |-> "notfound", items |-> <<>>, more |-> 0]

\* The answer built from the context lines: the first three, and the count
\* of the rest.
FallbackFrom(contextLines) ==
  [kind |-> "fallback",
   items |-> Prefix(contextLines, FALLBACK_LINES),
   more |-> IF Len(contextLines) > FALLBACK_LINES
            THEN Len(contextLines) - FALLBACK_LINES ELSE 0]

generateFallbackAnswer(context) == FallbackFrom(SplitBlank(context))

\* data.choices[0].message.content.trim()
LLMAnswer(content) == [kind |-> "llm", items |-> <<Trim(content)>>, more |-> 0]

UncertaintyPhrases ==
  { <<"U53EF", "U80FD">>, <<"U5927", "U6982">>, <<"U4F3C", "U4E4E">>,
    <<"U4E0D", "U786E", "U5B9A">>, <<"U6CA1", "U6709", "U627E", "U5230">>,
    <<"U4FE1", "U606F", "U4E0D", "U8DB3">>, <<"U5EFA", "U8BAE">>,
    <<"U6216", "U8BB8">> }

\* String.prototype.includes
Includes(s, phrase) ==
  \E i \in 1..(Len(s) - Len(phrase) + 1) : SubSeq(s, i, i + Len(phrase) - 1) = phrase

\* The fixed text of the fallback template and of an LLM answer's frame holds
\* no uncertainty phrase; the not-found text holds one.
containsUncertainty(answer) ==
  \/ answer.kind = "notfound"
  \/ \E i \in 1..Len(answer.items) :
       \E phrase \in UncertaintyPhrases : Includes(answer.items[i], phrase)

\* calculateConfidence without Math.min(..., 1.0)
UnclampedConfidence(results, answer) ==
  IF Len(results) = 0 THEN 0
  ELSE ((((SumSeq([i \in 1..Len(results) |-> results[i].similarity]) \div Len(results))
            * Min((Len(results) * SCALE) \div SOURCE_TARGET, SCALE)) \div SCALE)
          * (IF containsUncertainty(answer) THEN PENALTY ELSE SCALE)) \div SCALE

calculateConfidence(results, answer) ==
  IF Len(results) = 0 THEN 0
  ELSE LET avgSimilarity ==
             SumSeq([i \in 1..Len(results) |-> results[i].similarity]) \div Len(results)
           sourceBoost == Min((Len(results) * SCALE) \div SOURCE_TARGET, SCALE)
           uncertaintyPenalty == IF containsUncertainty(answer) THEN PENALTY ELSE SCALE
       IN Min((((avgSimilarity * sourceBoost) \div SCALE) * uncertaintyPenalty) \div SCALE,
              SCALE)

Sources(results) ==
  [i \in 1..Len(results) |->
     [segmentId |-> results[i].vector.metadata.segmentId,
      meetingId |-> results[i].vector.metadata.meetingId,
      speaker |-> results[i].vector.metadata.speaker,
      timestamp |-> results[i].vector.metadata.timestamp,
      text |-> results[i].vector.metadata.text,
      similarity |-> results[i].similarity]]

NotFoundResult ==
  [answer |-> NotFoundAnswer, sources |-> <<>>, usedContext |-> <<>>, confidence |-> 0]

\* ------------------------------------------------------------------- state

VARIABLES
  vsApiKey,    \* VectorService.apiKey
  ragApiKey,   \* RAGService.apiKey
  config,      \* RAGService.config
  vectors,     \* VectorService.vectors
  adds,        \* the addMeetingSegments calls in progress
  queries,     \* the query calls in progress
  indexCalls,  \* addMeetingSegments calls started so far
  exported,    \* the array a caller of exportVectors holds
  chunking     \* the chunkText call of a caller outside addMeetingSegments

VARIABLES
  route,       \* FeishuTextOnlyAgentDemo: the page shown, "agent" or "history"
  hooks,       \* the state of each mounted useRAG instance
  transcript,  \* FeishuTextOnlyAgentDemo: the segments of the loaded transcript
  jump,        \* the citation clicked last and where the agent view went
  indexing,    \* the useRAG instance awaiting each addMeetingSegments call
  asking,      \* the useRAG instance awaiting each query call
  configuring, \* the configureRAG call in progress
  clock        \* Date.now()

pageVars == <<route, hooks, transcript, jump, indexing, asking, configuring, clock>>

vars == <<vsApiKey, ragApiKey, config, vectors, adds, queries, indexCalls, exported,
          chunking, pageVars>>

\* The calls of addMeetingSegments are held in slots, whose number the initial
\* state of a specification fixes.
AddIds == DOMAIN adds
QueryIds == 1..MaxQueries

\* emb: how the call's latest getEmbedding ended: "none", "threw" (the
\* exception left getEmbedding), "remote", "fallback".
IdleAdd ==
  [pc |-> "idle", meetingId |-> <<>>, segments |-> <<>>, si |-> 0, ci |-> 0,
   emb |-> "none"]

IdleQuery ==
  [pc |-> "idle", question |-> <<>>, currentMeetingId |-> NoMeeting, limit |-> 0,
   emb |-> "none", queryEmbedding |-> Undefined, searched |-> <<>>,
   retrieved |-> <<>>, context |-> <<>>, result |-> NotFoundResult]

DefaultConfig ==
  [maxContextLength |-> DEFAULT_MAX_CONTEXT,
   retrievalLimit |-> DEFAULT_RETRIEVAL_LIMIT,
   similarityThreshold |-> DEFAULT_THRESHOLD]

\* The useRAG instances: of the page component (agent header), of the RAGChat
\* panel of the page shown, and of the HistoryList.
HookIds == {"agent", "chat", "history"}
NoHook == "none"

\* useRAG after its mount effect: isConfigured from the key in localStorage
\* (the one RAGService.setApiKey stores), vectorCount from getVectorCount().
MountedHook(key, store) ==
  [mounted |-> TRUE, isLoading |-> FALSE, vectorCount |-> Len(store),
   isConfigured |-> key # NoKey, currentMeetingId |-> NoMeeting,
   chatMessages |-> <<>>]

\* An instance whose component is not rendered.
UnmountedHook ==
  [mounted |-> FALSE, isLoading |-> FALSE, vectorCount |-> 0,
   isConfigured |-> FALSE, currentMeetingId |-> NoMeeting, chatMessages |-> <<>>]

NoJump == [segmentId |-> <<>>, meetingId |-> NoMeeting, idx |-> -1, t |-> 0]

IdleConfigure == [pc |-> "idle", hook |-> NoHook]

\* exportVectors returns this.vectors itself, not a copy. alias: the array
\* held is the one this.vectors refers to, and then its contents are the
\* store's; value: its contents otherwise. atExport, cleared and imported
\* record for the holder what the contents were at the export and whether
\* clear() and importVectors have been called with the array out.
NotExported ==
  [held |-> FALSE, alias |-> FALSE, value |-> <<>>, atExport |-> <<>>,
   cleared |-> FALSE, imported |-> FALSE]

\* The contents of the array held.
Contents(handle, store) == IF handle.alias THEN store ELSE handle.value

\* A clear() that empties the array in place: this.vectors.length = 0
EmptiedInPlace(handle, store) == [handle EXCEPT !.cleared = handle.held]

\* clear(): this.vectors = [] makes the store refer to a new array; the
\* array held keeps its contents.
Detached(handle, store) ==
  [handle EXCEPT !.alias = FALSE, !.value = Contents(handle, store),
                 !.cleared = handle.held]

\* No chunkText call from outside.
NoChunking == [pc |-> "idle", text |-> <<>>, maxLength |-> 0, chunks |-> <<>>]

\* The services used without the page (as RAGSystemTest uses them).
NoPage ==
  /\ route = "agent"
  /\ hooks = [h \in HookIds |-> UnmountedHook]
  /\ transcript = <<>>
  /\ jump = NoJump
  /\ indexing = [a \in DOMAIN adds |-> NoHook]
  /\ asking = [q \in QueryIds |-> NoHook]
  /\ configuring = IdleConfigure
  /\ clock = 1

\* The constructors read the key from localStorage, where an earlier session
\* may have stored one.
Init ==
  /\ \E k \in Keys \cup {NoKey} : vsApiKey = k /\ ragApiKey = k
  /\ config = DefaultConfig
  /\ vectors = <<>>
  /\ adds = [a \in 1..MaxAdds |-> IdleAdd]
  /\ queries = [q \in QueryIds |-> IdleQuery]
  /\ indexCalls = 0
  /\ exported = NotExported
  /\ chunking = NoChunking
  /\ NoPage

\* --------------------------------------------------- configuration actions

\* A settled promise resumes its awaiting caller before any other task runs.
Settled ==
  \/ \E a \in AddIds : adds[a].pc \in {"done", "rejected"}
  \/ \E q \in QueryIds : queries[q].pc \in {"done", "rejected"}

\* RAGService.setApiKey, which also sets the VectorService key.
SetApiKey(k) ==
  /\ ~Settled
  /\ ragApiKey' = k
  /\ vsApiKey' = k
  /\ UNCHANGED <<config, vectors, adds, queries, indexCalls, exported, chunking, pageVars>>

\* RAGService.updateConfig: { ...this.config, ...config }
UpdateConfig(partial) ==
  /\ ~Settled
  /\ config' = [f \in DOMAIN config |->
                  IF f \in DOMAIN partial THEN partial[f] ELSE config[f]]
  /\ config' # config
  /\ UNCHANGED <<vsApiKey, ragApiKey, vectors, adds, queries, indexCalls, exported,
                 chunking, pageVars>>

\* VectorService.clear
Clear ==
  /\ ~Settled
  /\ vectors # <<>> \/ exported.alias
  /\ vectors' = <<>>
  /\ exported' = Detached(exported, vectors)
  /\ UNCHANGED <<vsApiKey, ragApiKey, config, adds, queries, indexCalls, chunking,
                 pageVars>>

\* ------------------------------------------------------ addMeetingSegments

\* A loop without the try/catch: the exception leaves addMeetingSegments
AddRethrows == FALSE

\* The try/catch around one chunk (log, go on with the next chunk).
AddCatches == TRUE

\* this.chunkText(segment.text)
Chunks(segment) == ChunkTable[segment.text]

\* if (chunk.trim().length < 10) continue
Retained(chunk) == Len(Trim(chunk)) >= MIN_CHUNK_LEN

\* The two loops from chunk ci (0-based) of segment si on, up to the next
\* await of a fetch: skipped chunks, and chunks whose getEmbedding throws at
\* once because no key is configured, are passed without suspending.
RECURSIVE NextFetch(_, _, _, _, _)
NextFetch(segments, si, ci, key, emb) ==
  IF si > Len(segments) THEN [pc |-> "done", si |-> si, ci |-> 0, emb |-> emb]
  ELSE IF ci >= Len(Chunks(segments[si])) THEN NextFetch(segments, si + 1, 0, key, emb)
  ELSE IF ~Retained(Chunks(segments[si])[ci + 1])
       THEN NextFetch(segments, si, ci + 1, key, emb)
  ELSE IF key = NoKey
       THEN IF AddCatches
            THEN NextFetch(segments, si, ci + 1, key, "threw")
            ELSE [pc |-> "rejected", si |-> si, ci |-> ci, emb |-> "threw"]
       ELSE [pc |-> "embed", si |-> si, ci |-> ci, emb |-> emb]

\* The call's record at the position nxt.
At(add, nxt) == [add EXCEPT !.pc = nxt.pc, !.si = nxt.si, !.ci = nxt.ci, !.emb = nxt.emb]

\* Chunks still to be embedded from (si, ci) on.
RECURSIVE RetainedFrom(_, _, _)
RetainedFrom(segments, si, ci) ==
  IF si > Len(segments) THEN 0
  ELSE IF ci >= Len(Chunks(segments[si])) THEN RetainedFrom(segments, si + 1, 0)
  ELSE (IF Retained(Chunks(segments[si])[ci + 1]) THEN 1 ELSE 0)
         + RetainedFrom(segments, si, ci + 1)

\* Chunks the call a has still to embed.
PendingOf(a) ==
  IF adds[a].pc \in {"embed", "delay"}
  THEN RetainedFrom(adds[a].segments, adds[a].si,
                    adds[a].ci + (IF adds[a].pc = "delay" THEN 1 ELSE 0))
  ELSE 0

RECURSIVE PendingAll(_)
PendingAll(as) ==
  IF as = {} THEN 0
  ELSE LET a == CHOOSE x \in as : TRUE IN PendingOf(a) + PendingAll(as \ {a})

\* The call up to its first suspension.
AddStart(a, batch) ==
  /\ ~Settled
  /\ adds[a].pc = "idle"
  /\ indexCalls < MaxIndexCalls
  /\ indexCalls' = indexCalls + 1
  /\ Len(vectors) + PendingAll(AddIds) + RetainedFrom(batch.segments, 1, 0) <= MaxVectors
  /\ adds' = [adds EXCEPT ![a] =
                At([IdleAdd EXCEPT !.meetingId = batch.meetingId,
                                   !.segments = batch.segments],
                   NextFetch(batch.segments, 1, 0, vsApiKey, "none"))]
  /\ UNCHANGED <<vsApiKey, ragApiKey, config, vectors, queries, exported, chunking,
                 pageVars>>

\* getEmbedding once its fetch has settled.
EmbeddingOf(outcome, text) ==
  IF outcome.ok THEN outcome.embedding ELSE FallbackTable[text]

\* The record addMeetingSegments builds for chunk ci (0-based) of a segment.
VectorOf(meetingId, segment, chunks, ci, embedding) ==
  [embedding |-> embedding,
   metadata |->
     [segmentId |-> SegmentId(meetingId, segment.idx),
      meetingId |-> meetingId,
      speaker |-> segment.speaker,
      timestamp |-> segment.t,
      text |-> chunks[ci + 1],
      chunkIndex |-> IF Len(chunks) > 1 THEN ci ELSE -1]]

\* The embedding arrives: the record is pushed, the 100 ms delay starts.
AddEmbedReturn(a, outcome) ==
  /\ ~Settled
  /\ adds[a].pc = "embed"
  /\ vectors' =
       Append(vectors,
              VectorOf(adds[a].meetingId, adds[a].segments[adds[a].si],
                       Chunks(adds[a].segments[adds[a].si]), adds[a].ci,
                       EmbeddingOf(outcome,
                                   Chunks(adds[a].segments[adds[a].si])[adds[a].ci + 1])))
  /\ adds' = [adds EXCEPT ![a].pc = "delay",
                          ![a].emb = IF outcome.ok THEN "remote" ELSE "fallback"]
  /\ UNCHANGED <<vsApiKey, ragApiKey, config, queries, indexCalls, exported, chunking,
                 pageVars>>

\* The delay is over: on to the next chunk, or the call completes.
AddDelayDone(a) ==
  /\ ~Settled
  /\ adds[a].pc = "delay"
  /\ adds' = [adds EXCEPT ![a] =
                At(adds[a],
                   NextFetch(adds[a].segments, adds[a].si, adds[a].ci + 1, vsApiKey,
                             adds[a].emb))]
  /\ UNCHANGED <<vsApiKey, ragApiKey, config, vectors, queries, indexCalls, exported,
                 chunking, pageVars>>

\* The caller has seen the settled promise.
AddReturn(a) ==
  /\ adds[a].pc \in {"done", "rejected"}
  /\ adds' = [adds EXCEPT ![a] = IdleAdd]
  /\ UNCHANGED <<vsApiKey, ragApiKey, config, vectors, queries, indexCalls, exported,
                 chunking, pageVars>>

\* ------------------------------------------------------------------- query

\* A check for no evidence that never holds
NeverEmpty(retrieved) == Len(retrieved) < 0

\* if (retrievalResults.length === 0)
NoEvidence(retrieved) == Len(retrieved) = 0

\* A result whose sources are read from the store when the answer arrives
AnsweredAtReturn(retrieved, context, answer) ==
  [answer |-> answer,
   sources |-> Sources([i \in 1..Len(vectors) |->
                          [vector |-> vectors[i], similarity |-> SCALE]]),
   usedContext |-> context,
   confidence |-> calculateConfidence(retrieved, answer)]

\* The RAGResult of an answered query.
Answered(retrieved, context, answer) ==
  [answer |-> answer,
   sources |-> Sources(retrieved),
   usedContext |-> context,
   confidence |-> calculateConfidence(retrieved, answer)]

\* A generateAnswer that sends the request whether or not it has a key
AlwaysRequests(fields, context, key) ==
  [fields EXCEPT !.context = context, !.pc = "generate"]

\* query from the prepared context on: generateAnswer without a key returns
\* the fallback answer at once, with a key it awaits the chat endpoint.
AfterContext(fields, context, key) ==
  IF key = NoKey
  THEN [fields EXCEPT !.context = context, !.pc = "done",
                      !.result = Answered(fields.retrieved, context,
                                          generateFallbackAnswer(context))]
  ELSE [fields EXCEPT !.context = context, !.pc = "generate"]

\* query from the retrieval results on.
AfterRetrieved(fields, retrieved, cfg, key) ==
  IF NoEvidence(retrieved)
  THEN [fields EXCEPT !.retrieved = retrieved, !.pc = "done", !.result = NotFoundResult]
  ELSE AfterContext([fields EXCEPT !.retrieved = retrieved],
                    prepareContext(retrieved, cfg.maxContextLength).context, key)

\* query from the return of semanticSearch on, up to the generation fetch.
AfterSearch(fields, search, cfg, key) ==
  IF search.rejects THEN [fields EXCEPT !.pc = "rejected"]
  ELSE AfterRetrieved([fields EXCEPT !.searched = search.results],
                      RetrieveAfterSearch(search.results, fields.currentMeetingId,
                                          cfg.similarityThreshold),
                      cfg, key)

\* if (this.vectors.length === 0) return []
EmptyStore == [rejects |-> FALSE, results |-> <<>>]

\* The call as it starts.
StartQuery(question, currentMeetingId, limit) ==
  [IdleQuery EXCEPT !.question = question, !.currentMeetingId = currentMeetingId,
                    !.limit = limit]

\* The call up to its first suspension: an empty store returns [] at once,
\* a missing key makes getEmbedding throw inside the try of semanticSearch.
StartedQuery(question, currentMeetingId) ==
  IF Len(vectors) > 0 /\ vsApiKey # NoKey
  THEN [StartQuery(question, currentMeetingId, config.retrievalLimit)
          EXCEPT !.pc = "embed"]
  ELSE AfterSearch([StartQuery(question, currentMeetingId, config.retrievalLimit)
                      EXCEPT !.emb = IF Len(vectors) = 0 THEN "none" ELSE "threw"],
                   IF Len(vectors) = 0 THEN EmptyStore ELSE SearchCatch,
                   config, ragApiKey)

QueryStart(q, question, currentMeetingId) ==
  /\ ~Settled
  /\ queries[q].pc = "idle"
  /\ queries' = [queries EXCEPT ![q] = StartedQuery(question, currentMeetingId)]
  /\ UNCHANGED <<vsApiKey, ragApiKey, config, vectors, adds, indexCalls, exported,
                 chunking, pageVars>>

\* A scan that sorts this.vectors itself: the records found come first, in
\* the order of the search results.
SortedInPlace(store, searched) ==
  [i \in 1..Len(searched) |-> searched[i].vector]
    \o SelectSeq(store, LAMBDA v : \A i \in 1..Len(searched) : searched[i].vector # v)

\* The store after the scan: map builds a new array of { vector, similarity }
\* objects, and sort, slice and filter work on that array; boostCurrentMeeting
\* copies each result ({ ...result }). The store and its records are not
\* written.
StoreAfterScan(store, searched) == store

\* The call once the query embedding is there.
WithEmbedding(fields, emb, queryEmbedding) ==
  [fields EXCEPT !.emb = emb, !.queryEmbedding = queryEmbedding]

\* The query embedding arrives: the scan of the store as it is now, then the
\* retrieval policy, the context and, without a key, the fallback answer.
QueryEmbedReturn(q, outcome) ==
  /\ ~Settled
  /\ queries[q].pc = "embed"
  /\ queries' =
       [queries EXCEPT ![q] =
          AfterSearch(WithEmbedding(queries[q], IF outcome.ok THEN "remote" ELSE "fallback",
                                    EmbeddingOf(outcome, queries[q].question)),
                      SearchScan(vectors, EmbeddingOf(outcome, queries[q].question),
                                 queries[q].limit),
                      config, ragApiKey)]
  /\ vectors' = StoreAfterScan(vectors, queries'[q].searched)
  /\ UNCHANGED <<vsApiKey, ragApiKey, config, adds, indexCalls, exported, chunking,
                 pageVars>>

\* The generation fetch settles: the LLM's text, or the fallback answer.
QueryGenerateReturn(q, outcome) ==
  /\ ~Settled
  /\ queries[q].pc = "generate"
  /\ queries' =
       [queries EXCEPT ![q] =
          [queries[q] EXCEPT
             !.pc = "done",
             !.result = Answered(queries[q].retrieved, queries[q].context,
                                 IF outcome.ok THEN LLMAnswer(outcome.content)
                                 ELSE generateFallbackAnswer(queries[q].context))]]
  /\ UNCHANGED <<vsApiKey, ragApiKey, config, vectors, adds, indexCalls, exported,
                 chunking, pageVars>>

\* The caller has seen the settled promise.
QueryReturn(q) ==
  /\ queries[q].pc \in {"done", "rejected"}
  /\ queries' = [queries EXCEPT ![q] = IdleQuery]
  /\ UNCHANGED <<vsApiKey, ragApiKey, config, vectors, adds, indexCalls, exported,
                 chunking, pageVars>>

\* ----------------------------------------------------------- specification

Returns ==
  \/ \E a \in AddIds : AddReturn(a)
  \/ \E q \in QueryIds : QueryReturn(q)

Steps ==
  \/ \E k \in Keys : SetApiKey(k)
  \/ \E partial \in ConfigUpdates : UpdateConfig(partial)
  \/ Clear
  \/ \E a \in AddIds, batch \in Batches : AddStart(a, batch)
  \/ \E a \in AddIds, outcome \in EmbedOutcomes : AddEmbedReturn(a, outcome)
  \/ \E a \in AddIds : AddDelayDone(a)
  \/ \E q \in QueryIds, question \in Questions, m \in MeetingIds \cup {NoMeeting} :
       QueryStart(q, question, m)
  \/ \E q \in QueryIds, outcome \in EmbedOutcomes : QueryEmbedReturn(q, outcome)
  \/ \E q \in QueryIds, outcome \in LLMOutcomes : QueryGenerateReturn(q, outcome)

Next == Returns \/ Steps

Spec == Init /\ [][Next]_vars

\* ------------------------------------------- queries on an indexed store

\* The embeddings endpoint failing: getEmbedding falls back.
FetchFailed == [ok |-> FALSE, embedding |-> Undefined]

\* The records addMeetingSegments pushes for a batch, from chunk ci of
\* segment si on, when a key is configured and every fetch ends with outcome.
RECURSIVE IndexedFrom(_, _, _, _, _)
IndexedFrom(meetingId, segments, si, ci, outcome) ==
  IF si > Len(segments) THEN <<>>
  ELSE IF ci >= Len(Chunks(segments[si]))
       THEN IndexedFrom(meetingId, segments, si + 1, 0, outcome)
  ELSE (IF Retained(Chunks(segments[si])[ci + 1])
        THEN <<VectorOf(meetingId, segments[si], Chunks(segments[si]), ci,
                        EmbeddingOf(outcome, Chunks(segments[si])[ci + 1]))>>
        ELSE <<>>)
         \o IndexedFrom(meetingId, segments, si, ci + 1, outcome)

IndexedWith(batch, outcome) == IndexedFrom(batch.meetingId, batch.segments, 1, 0, outcome)

\* Every fetch failing: the fallback embeddings.
Indexed(batch) == IndexedWith(batch, FetchFailed)

\* The stores that one or two addMeetingSegments calls leave behind.
IndexedStores ==
  {st \in {Indexed(b) : b \in Batches}
          \cup {Indexed(b1) \o Indexed(b2) : b1, b2 \in Batches} :
     Len(st) <= MaxVectors}

\* The context limits a caller of updateConfig has set.
ContextLimits == {18, 24, 44, 45, 46, DEFAULT_MAX_CONTEXT}

\* The services after indexing, with a key configured, before a query. The
\* RAGService has the key too (RAGService.setApiKey sets both), or has none
\* (VectorService.setApiKey was called on its own).
InitQuery ==
  /\ \E k \in Keys : vsApiKey = k /\ ragApiKey \in {k, NoKey}
  /\ \E limit \in ContextLimits : config = [DefaultConfig EXCEPT !.maxContextLength = limit]
  /\ \E st \in IndexedStores : vectors = st
  /\ adds = [a \in 1..MaxAdds |-> IdleAdd]
  /\ queries = [q \in QueryIds |-> IdleQuery]
  /\ indexCalls = MaxIndexCalls
  /\ exported = NotExported
  /\ chunking = NoChunking
  /\ NoPage

NextQuery ==
  \/ \E q \in QueryIds, question \in Questions, m \in MeetingIds \cup {NoMeeting} :
       QueryStart(q, question, m)
  \/ \E q \in QueryIds, outcome \in EmbedOutcomes : QueryEmbedReturn(q, outcome)
  \/ \E q \in QueryIds, outcome \in LLMOutcomes : QueryGenerateReturn(q, outcome)
  \/ \E q \in QueryIds : QueryReturn(q)

SpecQuery == InitQuery /\ [][NextQuery]_vars

\* ------------------------------------------------- export, clear and import

\* The embeddings endpoint answering with an embedding.
FetchedA == [ok |-> TRUE, embedding |-> RemoteA]

\* The stores that up to three addMeetingSegments calls leave behind, each
\* call with the embeddings endpoint up or down.
StoredAfterIndexing ==
  {st \in {IndexedWith(b1, o1) \o IndexedWith(b2, o2) \o IndexedWith(b3, o3) :
             b1 \in Batches, b2 \in Batches, b3 \in Batches,
             o1 \in {FetchFailed, FetchedA}, o2 \in {FetchFailed, FetchedA},
             o3 \in {FetchFailed, FetchedA}} :
     Len(st) <= MaxVectors}

\* VectorService.getVectorCount
getVectorCount(store) == Len(store)

\* The store after indexing, nothing in progress.
InitStore ==
  /\ \E k \in Keys : vsApiKey = k /\ ragApiKey = k
  /\ config = DefaultConfig
  /\ \E st \in StoredAfterIndexing : vectors = st
  /\ adds = [a \in 1..MaxAdds |-> IdleAdd]
  /\ queries = [q \in QueryIds |-> IdleQuery]
  /\ indexCalls = MaxIndexCalls
  /\ exported = NotExported
  /\ chunking = NoChunking
  /\ NoPage

\* VectorService.exportVectors: return this.vectors
ExportVectors ==
  /\ ~Settled
  /\ exported' = [held |-> TRUE, alias |-> TRUE, value |-> <<>>, atExport |-> vectors,
                  cleared |-> FALSE, imported |-> FALSE]
  /\ UNCHANGED <<vsApiKey, ragApiKey, config, vectors, adds, queries, indexCalls,
                 chunking, pageVars>>

\* VectorService.importVectors with the array held: this.vectors = vectors
ImportVectors ==
  /\ ~Settled
  /\ exported.held
  /\ vectors' = Contents(exported, vectors)
  /\ exported' = [exported EXCEPT !.alias = TRUE, !.value = <<>>, !.imported = TRUE]
  /\ UNCHANGED <<vsApiKey, ragApiKey, config, adds, queries, indexCalls, chunking,
                 pageVars>>

NextStore ==
  \/ ExportVectors
  \/ Clear
  \/ ImportVectors

SpecStore == InitStore /\ [][NextStore]_vars

\* The store operations together with indexing: the array exported is held
\* while addMeetingSegments calls run.
NextExport ==
  \/ ExportVectors
  \/ Clear
  \/ ImportVectors
  \/ \E a \in AddIds, batch \in Batches : AddStart(a, batch)
  \/ \E a \in AddIds, outcome \in EmbedOutcomes : AddEmbedReturn(a, outcome)
  \/ \E a \in AddIds : AddDelayDone(a)
  \/ \E a \in AddIds : AddReturn(a)

SpecExport == Init /\ [][NextExport]_vars

\* ------------------------------------------------------- chunkText by itself

\* Sentences of four, six and two characters.
ChunkSentences == {A4, Rep(<<"b">>, 6), <<"c", "c">>}

\* Texts of one to three sentences, a full stop between them.
ChunkInputs ==
  ChunkSentences
    \cup {s1 \o <<".">> \o s2 : s1 \in ChunkSentences, s2 \in ChunkSentences}
    \cup {s1 \o <<".">> \o s2 \o <<".">> \o s3 :
            s1 \in ChunkSentences, s2 \in ChunkSentences, s3 \in ChunkSentences}

\* The maxLength arguments.
ChunkLimits == 8..12

\* chunkText has been called with a text and a maxLength.
InitChunk ==
  /\ \E k \in Keys \cup {NoKey} : vsApiKey = k /\ ragApiKey = k
  /\ config = DefaultConfig
  /\ vectors = <<>>
  /\ adds = [a \in 1..MaxAdds |-> IdleAdd]
  /\ queries = [q \in QueryIds |-> IdleQuery]
  /\ indexCalls = 0
  /\ exported = NotExported
  /\ \E text \in ChunkInputs, maxLength \in ChunkLimits :
       chunking = [pc |-> "called", text |-> text, maxLength |-> maxLength,
                   chunks |-> <<>>]
  /\ NoPage

\* The call returns its chunks.
ChunkReturn ==
  /\ chunking.pc = "called"
  /\ chunking' = [chunking EXCEPT !.pc = "returned",
                                  !.chunks = chunkText(chunking.text, chunking.maxLength)]
  /\ UNCHANGED <<vsApiKey, ragApiKey, config, vectors, adds, queries, indexCalls,
                 exported, pageVars>>

NextChunk == ChunkReturn

SpecChunk == InitChunk /\ [][NextChunk]_vars

\* ---------------------------------------------------------------- the page

\* Questions one chat panel is asked before it is unmounted.
MaxAsks == 1

\* `meeting_${Date.now()}`
MeetingAt(now) == <<"m", "_">> \o ToDigits(now)

\* The transcripts the agent view can hold, parsed: SAMPLE, and one pasted,
\* uploaded or opened from the history.
Sample == <<Seg(0, TextMixed), Seg(1, TextExact)>>
Pasted == <<Seg(0, TextNear)>>
Transcripts == {Sample, Pasted}

\* The meeting saved in the history (its id is a uuid).
SavedMeeting == [id |-> <<"u", "1">>, segments |-> Pasted]

\* What testConnection's fetch can end with: response.ok or not.
TestOutcomes == {[ok |-> TRUE], [ok |-> FALSE]}

\* segmentId.split('_'): there are two parts or more
HasParts(segmentId) == \E i \in 1..Len(segmentId) : segmentId[i] = "_"

\* The position of the last '_'.
LastUnderscore(segmentId) ==
  CHOOSE i \in 1..Len(segmentId) :
    segmentId[i] = "_" /\ \A j \in (i + 1)..Len(segmentId) : segmentId[j] # "_"

\* parts[parts.length - 1]
LastPart(segmentId) == SubSeq(segmentId, LastUnderscore(segmentId) + 1, Len(segmentId))

\* The meeting id a segmentId starts with: `${meetingId}_${segment.idx}`.
MeetingOf(segmentId) == SubSeq(segmentId, 1, LastUnderscore(segmentId) - 1)

IsDigit(c) == \E d \in 1..Len(DigitChars) : DigitChars[d] = c
DigitOf(c) == (CHOOSE d \in 1..Len(DigitChars) : DigitChars[d] = c) - 1
NaN == -1

\* parseInt(s, 10) of a string without sign or leading blanks: the value of
\* its longest prefix of digits, NaN when it starts with no digit.
RECURSIVE ParseLoop(_, _, _)
ParseLoop(s, i, acc) ==
  IF i > Len(s) \/ ~IsDigit(s[i]) THEN acc
  ELSE ParseLoop(s, i + 1, acc * 10 + DigitOf(s[i]))

parseInt(s) == IF s = <<>> \/ ~IsDigit(s[1]) THEN NaN ELSE ParseLoop(s, 1, 0)

\* useRAG.jumpToSegment: the index handed to onJump, NaN when onJump is not
\* called.
jumpToSegment(segmentId) ==
  IF HasParts(segmentId) THEN parseInt(LastPart(segmentId)) ELSE NaN

\* jumpTo: segments[idx]?.t ?? 0
jumpTo(segments, idx) == IF idx < Len(segments) THEN segments[idx + 1].t ELSE 0

\* The active segment for a playhead: the last one with t <= playhead.
RECURSIVE ActiveIdx(_, _, _)
ActiveIdx(segments, playhead, i) ==
  IF i >= Len(segments) \/ segments[i + 1].t > playhead THEN i - 1
  ELSE ActiveIdx(segments, playhead, i + 1)

\* setState of an instance that is no longer mounted changes nothing.
SetStatus(h, status) ==
  IF h # NoHook /\ hooks[h].mounted THEN [hooks EXCEPT ![h] = status] ELSE hooks

\* The calls an unmounted instance was awaiting go on without it.
Orphaned(owner, gone) == IF owner \in gone THEN NoHook ELSE owner

\* The instances a change of route unmounts: the RAGChat of the page left
\* and, leaving the history page, the HistoryList.
Unmounting == {"chat", "history"}

\* addMeetingSegments can start in slot a within the bounds of the model.
CanIndex(a, segments) ==
  /\ adds[a].pc = "idle"
  /\ indexCalls < MaxIndexCalls
  /\ Len(vectors) + PendingAll(AddIds) + RetainedFrom(segments, 1, 0) <= MaxVectors

\* addMeetingSegments up to its first suspension.
IndexStarted(meetingId, segments, key) ==
  At([IdleAdd EXCEPT !.meetingId = meetingId, !.segments = segments],
     NextFetch(segments, 1, 0, key, "none"))

\* The page after its first render and mount effects: the sample transcript
\* is loaded and its auto-indexing has started.
PageLoaded(slots) ==
  /\ \E k \in Keys \cup {NoKey} :
       /\ vsApiKey = k
       /\ ragApiKey = k
       /\ adds = [a \in 1..slots |->
                    IF a = 1 THEN IndexStarted(MeetingAt(1), Sample, k) ELSE IdleAdd]
       /\ hooks = [h \in HookIds |->
                     IF h = "agent"
                     THEN [MountedHook(k, <<>>) EXCEPT !.isLoading = TRUE,
                                                       !.currentMeetingId = MeetingAt(1)]
                     ELSE IF h = "chat" THEN MountedHook(k, <<>>) ELSE UnmountedHook]
  /\ config = DefaultConfig
  /\ vectors = <<>>
  /\ queries = [q \in QueryIds |-> IdleQuery]
  /\ indexCalls = 1
  /\ exported = NotExported
  /\ chunking = NoChunking
  /\ route = "agent"
  /\ transcript = Sample
  /\ jump = NoJump
  /\ indexing = [a \in 1..slots |-> IF a = 1 THEN "agent" ELSE NoHook]
  /\ asking = [q \in QueryIds |-> NoHook]
  /\ configuring = IdleConfigure
  /\ clock = 2

InitPage == PageLoaded(MaxAdds)

\* The hash changes: the RAGChat of the page left is unmounted and the one of
\* the page entered is mounted, the HistoryList with the history page.
Goto(r) ==
  /\ ~Settled
  /\ r # route
  /\ route' = r
  /\ hooks' = [hooks EXCEPT
                 !["chat"] = MountedHook(ragApiKey, vectors),
                 !["history"] = IF r = "history" THEN MountedHook(ragApiKey, vectors)
                                ELSE UnmountedHook]
  /\ indexing' = [a \in AddIds |-> Orphaned(indexing[a], Unmounting)]
  /\ asking' = [q \in QueryIds |-> Orphaned(asking[q], Unmounting)]
  /\ configuring' = [configuring EXCEPT !.hook = Orphaned(configuring.hook, Unmounting)]
  /\ UNCHANGED <<vsApiKey, ragApiKey, config, vectors, adds, queries, indexCalls,
                 exported, chunking, transcript, jump, clock>>

\* setRaw with another transcript (load sample, paste, upload, open from the
\* history): the re-parse effect sets the segments and the playhead, the
\* auto-index effect sets the current meeting and calls indexMeeting.
LoadTranscript(a, segments) ==
  /\ ~Settled
  /\ segments # transcript
  /\ CanIndex(a, segments)
  /\ transcript' = segments
  /\ jump' = NoJump
  /\ clock' = clock + 1
  /\ hooks' = [hooks EXCEPT !["agent"].currentMeetingId = MeetingAt(clock),
                            !["agent"].isLoading = TRUE]
  /\ adds' = [adds EXCEPT ![a] = IndexStarted(MeetingAt(clock), segments, vsApiKey)]
  /\ indexing' = [indexing EXCEPT ![a] = "agent"]
  /\ indexCalls' = indexCalls + 1
  /\ UNCHANGED <<vsApiKey, ragApiKey, config, vectors, queries, exported, chunking,
                 route, asking, configuring>>

\* HistoryList.indexAllMeetings with the saved meeting: the button is shown
\* when the instance is configured and enabled when it is not loading.
IndexAll(a) ==
  /\ ~Settled
  /\ route = "history"
  /\ hooks["history"].isConfigured
  /\ ~hooks["history"].isLoading
  /\ CanIndex(a, SavedMeeting.segments)
  /\ hooks' = [hooks EXCEPT !["history"].isLoading = TRUE]
  /\ adds' = [adds EXCEPT ![a] = IndexStarted(SavedMeeting.id, SavedMeeting.segments,
                                              vsApiKey)]
  /\ indexing' = [indexing EXCEPT ![a] = "history"]
  /\ indexCalls' = indexCalls + 1
  /\ UNCHANGED <<vsApiKey, ragApiKey, config, vectors, queries, exported, chunking,
                 route, transcript, jump, asking, configuring, clock>>

\* indexMeeting after its await: getVectorCount() is read into the status of
\* the instance that called.
IndexReturn(a) ==
  /\ adds[a].pc \in {"done", "rejected"}
  /\ adds' = [adds EXCEPT ![a] = IdleAdd]
  /\ hooks' = SetStatus(indexing[a],
                        [hooks[indexing[a]] EXCEPT
                           !.isLoading = FALSE,
                           !.vectorCount = IF adds[a].pc = "done" THEN Len(vectors)
                                           ELSE @])
  /\ indexing' = [indexing EXCEPT ![a] = NoHook]
  /\ UNCHANGED <<vsApiKey, ragApiKey, config, vectors, queries, indexCalls, exported,
                 chunking, route, transcript, jump, asking, configuring, clock>>

UserMessage == [role |-> "user", sources |-> <<>>]
AssistantMessage(sources) == [role |-> "assistant", sources |-> sources]

\* RAGChat.handleSendMessage and useRAG.askQuestion up to the await of
\* ragService.query(question, currentMeetingId.current || undefined).
AskQuestion(q, question) ==
  /\ ~Settled
  /\ hooks["chat"].mounted
  /\ ~hooks["chat"].isLoading
  /\ Len(hooks["chat"].chatMessages) < 2 * MaxAsks
  /\ queries[q].pc = "idle"
  /\ queries' = [queries EXCEPT
                   ![q] = StartedQuery(question, hooks["chat"].currentMeetingId)]
  /\ hooks' = [hooks EXCEPT
                 !["chat"].chatMessages = Append(@, UserMessage),
                 !["chat"].isLoading = TRUE]
  /\ asking' = [asking EXCEPT ![q] = "chat"]
  /\ UNCHANGED <<vsApiKey, ragApiKey, config, vectors, adds, indexCalls, exported,
                 chunking, route, transcript, jump, indexing, configuring, clock>>

\* askQuestion after its await: the assistant message with the sources of
\* the result, or the error message without sources.
AskReturn(q) ==
  /\ queries[q].pc \in {"done", "rejected"}
  /\ queries' = [queries EXCEPT ![q] = IdleQuery]
  /\ hooks' = SetStatus(asking[q],
                        [hooks[asking[q]] EXCEPT
                           !.isLoading = FALSE,
                           !.chatMessages =
                              Append(@, AssistantMessage(
                                          IF queries[q].pc = "done"
                                          THEN queries[q].result.sources ELSE <<>>))])
  /\ asking' = [asking EXCEPT ![q] = NoHook]
  /\ UNCHANGED <<vsApiKey, ragApiKey, config, vectors, adds, indexCalls, exported,
                 chunking, route, transcript, jump, indexing, configuring, clock>>

\* RAGChat.handleConfigureAPI and useRAG.configureRAG up to the await of
\* testConnection: the key is stored before the connection is tested.
ConfigureStart(k) ==
  /\ ~Settled
  /\ hooks["chat"].mounted
  /\ configuring.pc = "idle"
  /\ ragApiKey' = k
  /\ vsApiKey' = k
  /\ hooks' = [hooks EXCEPT !["chat"].isLoading = TRUE]
  /\ configuring' = [pc |-> "test", hook |-> "chat"]
  /\ UNCHANGED <<config, vectors, adds, queries, indexCalls, exported, chunking, route,
                 transcript, jump, indexing, asking, clock>>

\* configureRAG after testConnection: isConfigured is the test's result.
ConfigureReturn(outcome) ==
  /\ ~Settled
  /\ configuring.pc = "test"
  /\ hooks' = SetStatus(configuring.hook,
                        [hooks[configuring.hook] EXCEPT !.isConfigured = outcome.ok,
                                                        !.isLoading = FALSE])
  /\ configuring' = IdleConfigure
  /\ UNCHANGED <<vsApiKey, ragApiKey, config, vectors, adds, queries, indexCalls,
                 exported, chunking, route, transcript, jump, indexing, asking, clock>>

\* A citation of the chat panel of the agent view is clicked: jumpToSegment
\* hands the parsed index to jumpTo, which moves the playhead in the loaded
\* transcript. (On the history page onJumpToSegment only logs.)
JumpToSegment(i, j) ==
  /\ ~Settled
  /\ route = "agent"
  /\ i \in 1..Len(hooks["chat"].chatMessages)
  /\ j \in 1..Len(hooks["chat"].chatMessages[i].sources)
  /\ jumpToSegment(hooks["chat"].chatMessages[i].sources[j].segmentId) # NaN
  /\ jump' =
       [segmentId |-> hooks["chat"].chatMessages[i].sources[j].segmentId,
        meetingId |-> hooks["agent"].currentMeetingId,
        t |-> jumpTo(transcript,
                     jumpToSegment(hooks["chat"].chatMessages[i].sources[j].segmentId)),
        idx |-> ActiveIdx(transcript,
                          jumpTo(transcript,
                                 jumpToSegment(
                                   hooks["chat"].chatMessages[i].sources[j].segmentId)),
                          0)]
  /\ UNCHANGED <<vsApiKey, ragApiKey, config, vectors, adds, queries, indexCalls,
                 exported, chunking, route, hooks, transcript, indexing, asking,
                 configuring, clock>>

Routes == {"agent", "history"}
MessageIds == 1..(2 * MaxAsks)
SourceIds == 1..MaxVectors

NextPage ==
  \/ \E r \in Routes : Goto(r)
  \/ \E a \in AddIds, segments \in Transcripts : LoadTranscript(a, segments)
  \/ \E a \in AddIds : IndexAll(a)
  \/ \E a \in AddIds, outcome \in EmbedOutcomes : AddEmbedReturn(a, outcome)
  \/ \E a \in AddIds : AddDelayDone(a)
  \/ \E a \in AddIds : IndexReturn(a)
  \/ \E q \in QueryIds, question \in Questions : AskQuestion(q, question)
  \/ \E q \in QueryIds, outcome \in EmbedOutcomes : QueryEmbedReturn(q, outcome)
  \/ \E q \in QueryIds, outcome \in LLMOutcomes : QueryGenerateReturn(q, outcome)
  \/ \E q \in QueryIds : AskReturn(q)
  \/ \E k \in Keys : ConfigureStart(k)
  \/ \E outcome \in TestOutcomes : ConfigureReturn(outcome)
  \/ \E i \in MessageIds, j \in SourceIds : JumpToSegment(i, j)

SpecPage == InitPage /\ [][NextPage]_vars

\* ------------------------------------------------- the callers of indexing

\* The page with room for two calls of addMeetingSegments, and the steps of
\* its callers: the auto-index effect and the history's batch indexing.
InitIndexing == PageLoaded(MaxIndexers)

NextIndexing ==
  \/ \E r \in Routes : Goto(r)
  \/ \E a \in AddIds, segments \in Transcripts : LoadTranscript(a, segments)
  \/ \E a \in AddIds : IndexAll(a)
  \/ \E a \in AddIds, outcome \in EmbedOutcomes : AddEmbedReturn(a, outcome)
  \/ \E a \in AddIds : AddDelayDone(a)
  \/ \E a \in AddIds : IndexReturn(a)

SpecIndexing == InitIndexing /\ [][NextIndexing]_vars

\* ------------------------------------------------------ the chat, with fairness

\* The page with its chat panel: the user changes the route and asks; the
\* indexing in progress and the query go on.
NextChat ==
  \/ \E r \in Routes : Goto(r)
  \/ \E a \in AddIds, outcome \in EmbedOutcomes : AddEmbedReturn(a, outcome)
  \/ \E a \in AddIds : AddDelayDone(a)
  \/ \E a \in AddIds : IndexReturn(a)
  \/ \E q \in QueryIds, question \in Questions : AskQuestion(q, question)
  \/ \E q \in QueryIds, outcome \in EmbedOutcomes : QueryEmbedReturn(q, outcome)
  \/ \E q \in QueryIds, outcome \in LLMOutcomes : QueryGenerateReturn(q, outcome)
  \/ \E q \in QueryIds : AskReturn(q)

\* Every provider call completes, with success or failure, every timer
\* fires, and the continuation of a settled promise runs. Nothing obliges
\* the user to act. (That the embedding request of a query completes is
\* stated on the position of the query: it does not await it forever.)
SpecChat ==
  /\ InitPage
  /\ [][NextChat]_vars
  /\ WF_vars(\E a \in AddIds, outcome \in EmbedOutcomes : AddEmbedReturn(a, outcome))
  /\ WF_vars(\E a \in AddIds : AddDelayDone(a))
  /\ WF_vars(\E a \in AddIds : IndexReturn(a))
  /\ \A q \in 1..MaxQueries : []<>(queries[q].pc # "embed")
  /\ WF_vars(\E q \in QueryIds, outcome \in LLMOutcomes : QueryGenerateReturn(q, outcome))
  /\ WF_vars(\E q \in QueryIds : AskReturn(q))

\* ------------------------------------------------------------------ claims

\* The step in which the call q, its query embedding arrived, runs the scan
\* of semanticSearch and the retrieval policy.
Scanned(q) == queries[q].pc = "embed" /\ queries'[q].pc \in {"generate", "done"}

\* The step in which semanticSearch returns to the call q.
SearchReturned(q) ==
  queries[q].pc \in {"idle", "embed"} /\ queries'[q].pc \in {"generate", "done"}

\* The similarity of the stored record j to the query embedding qe.
SimTo(qe, store, j) == cosineSimilarity(qe, store[j].embedding)

\* The place of record j when the store is ordered by descending similarity,
\* records of equal similarity in store order.
Rank(qe, store, j) ==
  1 + Cardinality({k \in 1..Len(store) :
                     \/ SimTo(qe, store, k) > SimTo(qe, store, j)
                     \/ SimTo(qe, store, k) = SimTo(qe, store, j) /\ k < j})

\* The index of the record at place n.
Ranked(qe, store, n) == CHOOSE j \in 1..Len(store) : Rank(qe, store, j) = n

ResultsOf(qe, store, js) ==
  [n \in 1..Len(js) |-> [vector |-> store[js[n]], similarity |-> SimTo(qe, store, js[n])]]

\* The limit records of highest similarity, best first.
TopRanked(qe, store, limit) ==
  ResultsOf(qe, store, [n \in 1..Min(limit, Len(store)) |-> Ranked(qe, store, n)])

\* Those of the limit records of highest similarity that exceed the floor.
TopAboveFloor(qe, store, limit) ==
  ResultsOf(qe, store,
            SelectSeq([n \in 1..Min(limit, Len(store)) |-> Ranked(qe, store, n)],
                      LAMBDA j : SimTo(qe, store, j) > SEARCH_FLOOR))

\* Every embedding the scan reads is an array.
Comparable(qe, store) ==
  qe # Undefined /\ \A j \in 1..Len(store) : store[j].embedding # Undefined

\* The similarity a candidate has after the boost.
BoostedSimilarity(r, currentMeetingId) ==
  IF currentMeetingId # NoMeeting /\ r.vector.metadata.meetingId = currentMeetingId
  THEN (r.similarity * BOOST_NUM) \div BOOST_DEN
  ELSE r.similarity

SegmentIds(rs) == {rs[i].vector.metadata.segmentId : i \in 1..Len(rs)}

WellFormed(r) ==
  /\ DOMAIN r = {"answer", "sources", "usedContext", "confidence"}
  /\ r.answer.kind \in {"notfound", "fallback", "llm"}
  /\ r.confidence \in Int
  /\ \A i \in 1..Len(r.sources) :
       DOMAIN r.sources[i]
         = {"segmentId", "meetingId", "speaker", "timestamp", "text", "similarity"}

\* C1: query never rejects, and the result it resolves with is a RAGResult
\* (answer, sources, usedContext, confidence), whatever the embedding and
\* chat endpoints answer and whether or not a key is configured.
C1_QueryAlwaysResolves ==
  \A q \in QueryIds :
    /\ queries[q].pc # "rejected"
    /\ queries[q].pc = "done" => WellFormed(queries[q].result)

\* C1 witness: a query that resolved after the embedding endpoint failed and
\* the chat endpoint failed.
C1_Witness ==
  \E q \in QueryIds :
    /\ queries[q].pc = "done"
    /\ queries[q].emb = "fallback"
    /\ ragApiKey # NoKey
    /\ queries[q].result.answer.kind = "fallback"

\* C2: getEmbedding never raises an error to its caller: no call of
\* addMeetingSegments or of query ever sees getEmbedding throw.
C2_GetEmbeddingNeverRaises ==
  /\ \A a \in AddIds : adds[a].emb # "threw"
  /\ \A q \in QueryIds : queries[q].emb # "threw"

\* C3: when addMeetingSegments completes on a batch whose every text has at
\* least 10 characters, the store holds at least one record per segment.
C3_OneRecordPerSegment ==
  \A a \in AddIds :
    (/\ adds[a].pc = "done"
     /\ \A i \in 1..Len(adds[a].segments) :
          Len(adds[a].segments[i].text) >= MIN_CHUNK_LEN)
      => Len(vectors) >= Len(adds[a].segments)

\* C4: every embedding array in the store, and every query embedding array,
\* has the dimension 384.
C4_FixedDimension ==
  /\ \A i \in 1..Len(vectors) :
       vectors[i].embedding # Undefined => vectors[i].embedding.dim = FALLBACK_DIM
  /\ \A q \in QueryIds :
       queries[q].queryEmbedding # Undefined
         => queries[q].queryEmbedding.dim = FALLBACK_DIM

\* C5: the evidence list of retrieval, and the sources of the result, are in
\* non-increasing similarity order.
C5_SourcesNonIncreasing ==
  \A q \in QueryIds :
    /\ queries[q].pc \in {"generate", "done"} =>
         \A i \in 1..(Len(queries[q].retrieved) - 1) :
           queries[q].retrieved[i].similarity >= queries[q].retrieved[i + 1].similarity
    /\ queries[q].pc = "done" =>
         \A i \in 1..(Len(queries[q].result.sources) - 1) :
           queries[q].result.sources[i].similarity
             >= queries[q].result.sources[i + 1].similarity

\* C5 witness: a result with several sources whose first source is not the
\* first result of the search: the boost changed the order.
C5_Witness ==
  \E q \in QueryIds :
    /\ queries[q].pc = "done"
    /\ queries[q].currentMeetingId # NoMeeting
    /\ Len(queries[q].result.sources) >= 2
    /\ queries[q].result.sources[1].segmentId
         # queries[q].searched[1].vector.metadata.segmentId
    /\ queries[q].result.sources[1].similarity
         > queries[q].result.sources[2].similarity

\* C6: every evidence item has a similarity to the query, before the boost,
\* of at least the threshold; the evidence holds exactly the segments of the
\* search results at or above the threshold; and it is empty when every
\* stored record is below the threshold.
C6_ThresholdBeforeBoost ==
  [][\A q \in QueryIds :
       Scanned(q) =>
         /\ \A i \in 1..Len(queries'[q].retrieved) :
              cosineSimilarity(queries'[q].queryEmbedding,
                               queries'[q].retrieved[i].vector.embedding)
                >= config.similarityThreshold
         /\ SegmentIds(queries'[q].retrieved)
              = SegmentIds(SelectSeq(queries'[q].searched,
                                     LAMBDA r : r.similarity >= config.similarityThreshold))
         /\ (\A j \in 1..Len(vectors) :
               SimTo(queries'[q].queryEmbedding, vectors, j) < config.similarityThreshold)
              => queries'[q].retrieved = <<>>]_vars

\* C6 witness: a search result of the current meeting below the threshold
\* that the boost would lift to the threshold, and that is no evidence.
C6_Witness ==
  \E q \in QueryIds :
    /\ queries[q].pc = "done"
    /\ \E i \in 1..Len(queries[q].searched) :
         /\ queries[q].searched[i].vector.metadata.meetingId = queries[q].currentMeetingId
         /\ queries[q].searched[i].similarity < config.similarityThreshold
         /\ BoostedSimilarity(queries[q].searched[i], queries[q].currentMeetingId)
              >= config.similarityThreshold
         /\ queries[q].searched[i].vector.metadata.segmentId
              \notin SegmentIds(queries[q].retrieved)

C8_OnePerSegment ==
  [][\A q \in QueryIds :
       Scanned(q) =>
         LET kept == queries'[q].retrieved
             candidates == SelectSeq(queries'[q].searched,
                                     LAMBDA r : r.similarity >= config.similarityThreshold)
             cur == queries'[q].currentMeetingId
         IN /\ \A i, j \in 1..Len(kept) :
                 i # j => kept[i].vector.metadata.segmentId
                            # kept[j].vector.metadata.segmentId
            /\ \A i \in 1..Len(kept) :
                 \E c \in 1..Len(candidates) :
                   /\ kept[i].vector = candidates[c].vector
                   /\ kept[i].similarity = BoostedSimilarity(candidates[c], cur)
            /\ \A c \in 1..Len(candidates) :
                 \E i \in 1..Len(kept) :
                   /\ kept[i].vector.metadata.segmentId
                        = candidates[c].vector.metadata.segmentId
                   /\ kept[i].similarity >= BoostedSimilarity(candidates[c], cur)]_vars

\* C8 witness: two search results of one segment with different similarity,
\* both at or above the threshold, and one evidence item for the segment.
C8_Witness ==
  \E q \in QueryIds :
    /\ queries[q].pc = "done"
    /\ \E i, j \in 1..Len(queries[q].searched) :
         /\ queries[q].searched[i].vector.metadata.segmentId
              = queries[q].searched[j].vector.metadata.segmentId
         /\ queries[q].searched[i].similarity > queries[q].searched[j].similarity
         /\ queries[q].searched[j].similarity >= config.similarityThreshold
         /\ Cardinality({k \in 1..Len(queries[q].retrieved) :
                           queries[q].retrieved[k].vector.metadata.segmentId
                             = queries[q].searched[i].vector.metadata.segmentId}) = 1

\* C9: a query whose retrieval yields no evidence returns the not-found
\* answer, no sources, an empty usedContext and confidence 0.
C9_NoEvidenceNotFound ==
  \A q \in QueryIds :
    (queries[q].pc = "done" /\ queries[q].retrieved = <<>>)
      => /\ queries[q].result.answer.kind = "notfound"
         /\ queries[q].result.answer.items = <<>>
         /\ queries[q].result.sources = <<>>
         /\ queries[q].result.usedContext = <<>>
         /\ queries[q].result.confidence = 0

\* C9 witness: a query on a store with search results, none of them at or
\* above the threshold.
C9_Witness ==
  \E q \in QueryIds :
    /\ queries[q].pc = "done"
    /\ queries[q].searched # <<>>
    /\ queries[q].retrieved = <<>>

\* C10: the confidence of every result lies in [0, 1].
C10_ConfidenceInUnitInterval ==
  \A q \in QueryIds :
    queries[q].pc = "done"
      => queries[q].result.confidence >= 0 /\ queries[q].result.confidence <= SCALE

\* C10 witness: a result with three sources, one of them boosted above 1,
\* whose confidence is 1.
C10_Witness ==
  \E q \in QueryIds :
    /\ queries[q].pc = "done"
    /\ Len(queries[q].result.sources) >= SOURCE_TARGET
    /\ \E i \in 1..Len(queries[q].result.sources) :
         queries[q].result.sources[i].similarity > SCALE
    /\ queries[q].result.confidence = SCALE

\* C11: the context assembled for a query, and the usedContext of its result,
\* is never longer than maxContextLength characters.
C11_ContextWithinLimit ==
  \A q \in QueryIds :
    /\ queries[q].pc \in {"generate", "done"}
         => Len(queries[q].context) <= config.maxContextLength
    /\ queries[q].pc = "done"
         => Len(queries[q].result.usedContext) <= config.maxContextLength

\* C12: a question asked in the chat panel of the agent view reaches
\* ragService.query with, as currentMeetingId, the id under which the loaded
\* transcript was indexed.
C12_AskedWithLoadedMeeting ==
  [][\A q \in QueryIds :
       (route = "agent" /\ asking[q] = NoHook /\ asking'[q] = "chat")
         => queries'[q].currentMeetingId = hooks["agent"].currentMeetingId]_vars

\* C13: when no configureRAG call is in progress, the isConfigured status of
\* every mounted useRAG instance is true if and only if an API key is present
\* for the services.
C13_ConfiguredIffCredential ==
  configuring.pc = "idle"
    => \A h \in HookIds :
         hooks[h].mounted => (hooks[h].isConfigured <=> ragApiKey # NoKey)

\* C14: a click on a citation shows the segment the citation names: the
\* segment shown belongs to the meeting, and has the index, encoded in the
\* citation's segmentId.
C14_JumpShowsCitedSegment ==
  [][(jump' # jump /\ jump'.segmentId # <<>>)
       => /\ jump'.meetingId = MeetingOf(jump'.segmentId)
          /\ jump'.idx = parseInt(LastPart(jump'.segmentId))]_vars

\* C15: importVectors(exportVectors()) leaves the count and the records, in
\* their order, as they were at the export, also when clear() was called
\* between the export and the import.
C15_ImportOfExport ==
  [][ImportVectors
       => /\ vectors' = exported.atExport
          /\ getVectorCount(vectors') = getVectorCount(exported.atExport)]_vars

\* An import has restored a store that clear() had emptied after the export.
C15_Witness ==
  /\ exported.imported
  /\ exported.cleared
  /\ vectors # <<>>
  /\ vectors = exported.atExport

\* C16: no chunk returned by chunkText(text, maxLength) is longer than
\* maxLength, except a chunk that is one sentence of the text.
C16_ChunkWithinMaxLength ==
  chunking.pc = "returned"
    => \A i \in 1..Len(chunking.chunks) :
         \/ Len(chunking.chunks[i]) <= chunking.maxLength
         \/ \E k \in 1..Len(Split(chunking.text, "terminal")) :
              Trim(Split(chunking.text, "terminal")[k]) = chunking.chunks[i]

\* C17: an evidence item of the current meeting is reported with a
\* similarity that is at least the one the same record is reported with when
\* the query, on the same search results, passes no currentMeetingId.
C17_BoostNeverLowers ==
  [][\A q \in QueryIds :
       (Scanned(q) /\ queries'[q].currentMeetingId # NoMeeting) =>
         \A i \in 1..Len(queries'[q].retrieved) :
           queries'[q].retrieved[i].vector.metadata.meetingId
               = queries'[q].currentMeetingId
             => \A k \in 1..Len(RetrieveAfterSearch(queries'[q].searched, NoMeeting,
                                                    config.similarityThreshold)) :
                  RetrieveAfterSearch(queries'[q].searched, NoMeeting,
                                      config.similarityThreshold)[k].vector
                      = queries'[q].retrieved[i].vector
                    => queries'[q].retrieved[i].similarity
                         >= RetrieveAfterSearch(queries'[q].searched, NoMeeting,
                                                config.similarityThreshold)[k].similarity]_vars

\* C17 witness: a completed query reports a record of its current meeting
\* with more than the record's cosine similarity to the query embedding.
C17_Witness ==
  \E q \in QueryIds :
    /\ queries[q].pc = "done"
    /\ queries[q].currentMeetingId # NoMeeting
    /\ \E i \in 1..Len(queries[q].result.sources) :
         /\ queries[q].result.sources[i].meetingId = queries[q].currentMeetingId
         /\ queries[q].result.sources[i].similarity
              > cosineSimilarity(queries[q].queryEmbedding,
                                 queries[q].retrieved[i].vector.embedding)

\* C18: a completed query whose question occurs verbatim in the text of a
\* stored record reports at least one source from that record's meeting.
C18_VerbatimPhraseRetrieved ==
  \A q \in QueryIds :
    queries[q].pc = "done" =>
      \A j \in 1..Len(vectors) :
        Includes(vectors[j].metadata.text, queries[q].question)
          => \E i \in 1..Len(queries[q].result.sources) :
               queries[q].result.sources[i].meetingId = vectors[j].metadata.meetingId

\* C19: but for clear() and importVectors, no step removes, changes or
\* reorders a stored record: the store before the step is a prefix of the
\* store after it, so getVectorCount() never decreases.
C19_RecordsKept ==
  [][\/ Clear
     \/ ImportVectors
     \/ /\ getVectorCount(vectors') >= getVectorCount(vectors)
        /\ SubSeq(vectors', 1, Len(vectors)) = vectors]_vars

\* C19 witness: a completed query has ranked two stored records against
\* their order in the store, and the store still holds them in its order.
C19_Witness ==
  \E q \in QueryIds :
    /\ queries[q].pc = "done"
    /\ Len(queries[q].searched) >= 2
    /\ Len(vectors) >= 2
    /\ queries[q].searched[1].vector = vectors[2]
    /\ queries[q].searched[2].vector = vectors[1]

\* C20: when no indexing call is in progress, the vectorCount of every
\* mounted useRAG instance (agent header, chat panel, history page) equals
\* getVectorCount().
C20_DisplayedCountIsStoreCount ==
  (\A a \in AddIds : adds[a].pc = "idle")
    => \A h \in HookIds :
         hooks[h].mounted => hooks[h].vectorCount = getVectorCount(vectors)

\* C21: a query sends the generation request only when the RAGService has a
\* key; without one, and when the request fails, the query is not rejected
\* and its answer is the fallback answer built from the context it assembled.
C21_FallbackWithoutProvider ==
  [][\A q \in QueryIds :
       /\ (queries[q].pc # "generate" /\ queries'[q].pc = "generate")
            => ragApiKey # NoKey
       /\ (SearchReturned(q) /\ ragApiKey = NoKey /\ queries'[q].retrieved # <<>>)
            => /\ queries'[q].pc = "done"
               /\ queries'[q].result.answer
                    = generateFallbackAnswer(queries'[q].context)
               /\ queries'[q].result.usedContext = queries'[q].context
               /\ queries'[q].context
                    = prepareContext(queries'[q].retrieved,
                                     config.maxContextLength).context
       /\ \A outcome \in LLMOutcomes :
            (~outcome.ok /\ QueryGenerateReturn(q, outcome))
              => /\ queries'[q].pc = "done"
                 /\ queries'[q].result.answer
                      = generateFallbackAnswer(queries[q].context)
                 /\ queries'[q].result.usedContext = queries[q].context]_vars

\* C21 witness: a query with evidence completed with the fallback answer
\* while the RAGService had no key.
C21_Witness ==
  \E q \in QueryIds :
    /\ queries[q].pc = "done"
    /\ ragApiKey = NoKey
    /\ queries[q].retrieved # <<>>
    /\ queries[q].result.answer.kind = "fallback"
    /\ queries[q].result.answer = generateFallbackAnswer(queries[q].result.usedContext)

C23_OneBatchAtATime ==
  /\ Cardinality({a \in AddIds : adds[a].pc \in {"embed", "delay"}}) <= 1
  /\ Cardinality({a \in AddIds : adds[a].pc = "embed"}) <= 1

\* C24: the result of a query is computed from the store as it is at the one
\* step in which its scan runs: the search results are the scan of that
\* store, the evidence does not change while the answer is generated, and
\* the sources are those of that evidence, whatever is appended meanwhile.
C24_ResultFromStoreAtScan ==
  [][\A q \in QueryIds :
       /\ Scanned(q)
            => /\ queries'[q].searched
                    = SearchScan(vectors, queries'[q].queryEmbedding,
                                 queries'[q].limit).results
               /\ \A i \in 1..Len(queries'[q].searched) :
                    \E j \in 1..Len(vectors) :
                      queries'[q].searched[i].vector = vectors[j]
               /\ vectors' = vectors
       /\ queries[q].pc = "generate"
            => /\ queries'[q].pc \in {"generate", "done"}
               /\ queries'[q].searched = queries[q].searched
               /\ queries'[q].retrieved = queries[q].retrieved
       /\ (queries[q].pc \in {"embed", "generate"} /\ queries'[q].pc = "done")
            => /\ queries'[q].result.sources = Sources(queries'[q].retrieved)
               /\ \A i \in 1..Len(queries'[q].result.sources) :
                    \E j \in 1..Len(queries'[q].searched) :
                      queries'[q].result.sources[i].segmentId
                        = queries'[q].searched[j].vector.metadata.segmentId]_vars

\* C24 witness: a query completed while a batch was being indexed cites a
\* record of the batch and not another one, stored after the scan, that the
\* scan would have returned.
C24_Witness ==
  \E q \in QueryIds, a \in AddIds :
    /\ queries[q].pc = "done"
    /\ adds[a].pc \in {"embed", "delay", "done"}
    /\ Len(queries[q].searched) < queries[q].limit
    /\ \E i \in 1..Len(queries[q].result.sources), j \in 1..Len(vectors) :
         /\ queries[q].result.sources[i].meetingId = adds[a].meetingId
         /\ vectors[j].metadata.meetingId = adds[a].meetingId
         /\ vectors[j].embedding # Undefined
         /\ SimTo(queries[q].queryEmbedding, vectors, j) > SEARCH_FLOOR
         /\ SimTo(queries[q].queryEmbedding, vectors, j) >= config.similarityThreshold
         /\ \A k \in 1..Len(queries[q].searched) :
              queries[q].searched[k].vector # vectors[j]

\* C25: a fallback answer lists exactly min(3, k) numbered evidence lines,
\* in ranked order, k being the number of evidence items put into the
\* context, and has the "N more records" note if and only if k > 3.
C25_FallbackListsEvidence ==
  \A q \in QueryIds :
    (queries[q].pc = "done" /\ queries[q].result.answer.kind = "fallback")
      => /\ Len(queries[q].result.answer.items)
              = Min(FALLBACK_LINES,
                    IncludedLoop(queries[q].retrieved, <<>>, config.maxContextLength))
         /\ \A i \in 1..Len(queries[q].result.answer.items) :
              queries[q].result.answer.items[i]
                = ContextLine(queries[q].retrieved[i].vector.metadata)
         /\ queries[q].result.answer.more > 0
              <=> IncludedLoop(queries[q].retrieved, <<>>, config.maxContextLength)
                    > FALLBACK_LINES

\* C26: askQuestion appends exactly one user message, and a question asked
\* in the chat panel is eventually followed there by exactly one assistant
\* message, with isLoading false again.
C26_AskedThenAnswered ==
  /\ [][\A q \in QueryIds :
          (asking[q] = NoHook /\ asking'[q] = "chat")
            => hooks'["chat"].chatMessages
                 = Append(hooks["chat"].chatMessages, UserMessage)]_vars
  /\ \A q \in 1..MaxQueries :
       (asking[q] = "chat")
         ~> (/\ Len(hooks["chat"].chatMessages) = 2
             /\ hooks["chat"].chatMessages[1].role = "user"
             /\ hooks["chat"].chatMessages[2].role = "assistant"
             /\ ~hooks["chat"].isLoading)

C28_DistinctSegmentsCited ==
  [][\A q \in QueryIds :
       (Scanned(q) /\ Comparable(queries'[q].queryEmbedding, vectors))
         => Len(queries'[q].retrieved)
              = Min(queries'[q].limit,
                    Cardinality({vectors[j].metadata.segmentId :
                                   j \in {k \in 1..Len(vectors) :
                                            /\ SimTo(queries'[q].queryEmbedding, vectors, k)
                                                 > SEARCH_FLOOR
                                            /\ SimTo(queries'[q].queryEmbedding, vectors, k)
                                                 >= config.similarityThreshold}}))]_vars

\* C29: every source of a result contributed a line to its usedContext: the
\* sources are exactly the evidence items put into the context.
C29_SourcesAreInContext ==
  \A q \in QueryIds :
    queries[q].pc = "done"
      => /\ \A i \in 1..Len(queries[q].result.sources) :
              \E n \in 1..Len(SplitBlank(queries[q].result.usedContext)) :
                SplitBlank(queries[q].result.usedContext)[n]
                  = ContextLine(queries[q].result.sources[i])
         /\ Len(queries[q].result.sources)
              = IncludedLoop(queries[q].retrieved, <<>>, config.maxContextLength)

\* C30: the array returned by exportVectors() is a snapshot: whatever store
\* operations follow (addMeetingSegments, clear, importVectors), its length
\* and contents stay what they were at the export.
C30_ExportIsSnapshot ==
  exported.held
    => /\ Len(Contents(exported, vectors)) = Len(exported.atExport)
       /\ Contents(exported, vectors) = exported.atExport

====
